---- MODULE Spec2Model ----
(***************************************************************************)
(* XMODEM sender (send_file) and receiver (receive_file) of xmodem.py,     *)
(* each a sequential process talking over two FIFO byte channels.          *)
(*                                                                         *)
(* One action is one blocking ser.read together with everything the code   *)
(* does up to its next blocking call (the writes are part of the action).  *)
(* A read of n bytes returns n bytes when the channel holds them; it       *)
(* returns fewer (a timeout) only when the peer cannot deliver more        *)
(* without a timeout of its own: the peer is itself waiting on a channel   *)
(* that does not hold what it reads, has returned, or is not there. A peer *)
(* in time.sleep(1) wakes before the one-second timeout of a read.         *)
(*                                                                         *)
(* BLOCK_SIZE is scaled down from 128 and files are drawn from short byte  *)
(* strings; the sequence numbers, control bytes, checksum and CRC are the  *)
(* program's.                                                              *)
(***************************************************************************)
EXTENDS Integers, Sequences, FiniteSets, TLC

\* ---------------------------------------------------------------- constants
SOH == 1
EOT == 4
ACK == 6
NAK == 21
CAN == 24
C == 67
PADDING == 26
RETRY_LIMIT == 10

\* ------------------------------------------------------------------- bounds
\* the block length (128 in the program)
BLOCK_SIZE == 2
\* the longest file sent
MaxFileLen == 3
\* the most unread answers the receiver lets pile up before a read of its
\* per-frame loop may time out again
MaxBacklog == 2
\* the environment of the receiver alone stops once this many blocks are in
MaxFedBlocks == 1
\* the blocks of the long file, enough for the block number to pass 255
LongFileBlocks == 257

\* the bytes files are made of: the padding byte and a byte ("A") that is
\* no control byte
FileBytes == {PADDING, 65}

VARIABLES
    file,             \* the bytes of the file send_file reads
    sType,            \* send_file's checksum_type: "BASIC" or "CRC"
    rType,            \* receive_file's checksum_type
    s2r,              \* bytes written by the sender, not yet read by the receiver
    r2s,              \* bytes written by the receiver, not yet read by the sender
    \* send_file
    spc,              \* "idle" (not yet called), "handshake", "response",
                      \* "eot_response", "eot_sleep", "done", "absent"
    blocks,           \* the padded file, split
    initiate_char,    \* <<>> (None) or <<byte>>
    s_use_crc,
    block_index,      \* position of the for loop in blocks (1-based)
    block_number,
    s_retries,
    sResult,          \* "None" while running, then "True" or "False"
    \* receive_file
    rpc,              \* "start", "hs_read", "hs_sleep", "block_num", "complement",
                      \* "data", "trailer", "lead", "done", "absent"
    r_use_crc,
    r_retries,
    received_data,
    expected_block,
    block_num,        \* the locals of the per-frame loop
    block_num_complement,
    data_block,
    trailer,          \* crc_bytes / checksum
    outFile,          \* <<>> or <<contents>>: what was written to output_filename
    rResult,
    consumed,         \* <<>> or <<the last byte receive_file took from the port>>
    fault,            \* what the link did to the session: "none", ...
    \* main
    sExit,            \* exit status of the process that ran main in send mode:
                      \* <<>> while it runs, then <<status>>
    rExit             \* the same for receive mode

chanVars == <<s2r, r2s>>
cfgVars == <<file, sType, rType>>
sVars == <<spc, blocks, initiate_char, s_use_crc, block_index, block_number,
           s_retries, sResult>>
rVars == <<rpc, r_use_crc, r_retries, received_data, expected_block, block_num,
           block_num_complement, data_block, trailer, outFile, rResult, consumed>>
mainVars == <<sExit, rExit>>
vars == <<cfgVars, mainVars, chanVars, sVars, rVars, fault>>

\* ------------------------------------------------------------------ helpers
Drop(s, n) == SubSeq(s, n + 1, Len(s))
Min(a, b) == IF a < b THEN a ELSE b
Repeat(b, n) == [i \in 1..n |-> b]

RECURSIVE SeqsUpTo(_, _)
SeqsUpTo(S, n) ==
    IF n = 0 THEN {<<>>}
    ELSE LET shorter == SeqsUpTo(S, n - 1)
         IN shorter \cup {Append(s, b) : s \in {t \in shorter : Len(t) = n - 1}, b \in S}

SeqsOfLen(S, n) == {s \in SeqsUpTo(S, n) : Len(s) = n}

RECURSIVE Xor(_, _)
Xor(a, b) ==
    IF a = 0 THEN b
    ELSE IF b = 0 THEN a
    ELSE (((a % 2) + (b % 2)) % 2) + 2 * Xor(a \div 2, b \div 2)

\* -------------------------------------------------------- integrity codecs
RECURSIVE SumBytes(_)
SumBytes(data) == IF data = <<>> THEN 0 ELSE Head(data) + SumBytes(Tail(data))

calculate_checksum(data) == SumBytes(data) % 256

\* one pass of the inner loop: crc is not masked inside it
CrcStep(crc) == IF (crc \div 32768) % 2 = 1 THEN Xor(crc * 2, 4129) ELSE crc * 2

\* the inner "for _ in range(8)" loop; the value of each pass is bound before
\* the next pass uses it
RECURSIVE CrcShift(_, _)
CrcShift(crc, k) ==
    IF k = 0 THEN crc
    ELSE CHOOSE next \in {CrcStep(prev) : prev \in {CrcShift(crc, k - 1)}} : TRUE

RECURSIVE CrcFrom(_, _)
CrcFrom(crc, data) ==
    IF data = <<>> THEN crc
    ELSE CrcFrom(CrcShift(Xor(crc, Head(data) * 256), 8) % 65536, Tail(data))

calculate_crc(data) == CrcFrom(0, data)

\* ------------------------------------------------------------------ framing
\* mutant of PadFile: a whole block of padding after a file that fills its
\* last block
PadFile_AlwaysPads(file_content) ==
    file_content \o Repeat(PADDING, BLOCK_SIZE - (Len(file_content) % BLOCK_SIZE))

\* the padding of send_file
PadFile(file_content) ==
    LET padding_size == BLOCK_SIZE - (Len(file_content) % BLOCK_SIZE)
    IN IF padding_size < BLOCK_SIZE
       THEN file_content \o Repeat(PADDING, padding_size)
       ELSE file_content

\* [file_content[i:i+BLOCK_SIZE] for i in range(0, len(file_content), BLOCK_SIZE)]
SplitBlocks(file_content) ==
    [k \in 1..((Len(file_content) + BLOCK_SIZE - 1) \div BLOCK_SIZE) |->
        SubSeq(file_content, (k - 1) * BLOCK_SIZE + 1,
               Min(k * BLOCK_SIZE, Len(file_content)))]

\* the integrity trailer the sender appends
Trailer(block, use_crc) ==
    IF use_crc
    THEN <<(calculate_crc(block) \div 256) % 256, calculate_crc(block) % 256>>
    ELSE <<calculate_checksum(block)>>

Packet(number, block, use_crc) ==
    <<SOH, number % 256, 255 - (number % 256)>> \o block \o Trailer(block, use_crc)

\* ------------------------------------------------------------ the serial link
\* How many bytes the receiver's pending ser.read asks for.
Need ==
    CASE rpc = "data" -> BLOCK_SIZE
      [] rpc = "trailer" -> IF r_use_crc THEN 2 ELSE 1
      [] OTHER -> 1

\* The sender cannot write another byte before one of its own timeouts.
SenderQuiet ==
    \/ spc \in {"absent", "done", "idle"}
    \/ spc # "eot_sleep" /\ r2s = <<>>

\* The receiver cannot write another byte before one of its own timeouts.
ReceiverQuiet ==
    \/ rpc \in {"absent", "done"}
    \/ rpc \notin {"start", "hs_sleep"} /\ Len(s2r) < Need

\* The results ser.read(1) of the sender can have: the next byte, or nothing
\* after the timeout.
SenderRead ==
    IF r2s # <<>> THEN {<<Head(r2s)>>}
    ELSE IF ReceiverQuiet THEN {<<>>} ELSE {}

\* The results ser.read(n) of the receiver can have: n bytes, or after the
\* timeout the fewer bytes that came.
ReceiverRead(n) ==
    IF Len(s2r) >= n THEN {SubSeq(s2r, 1, n)}
    ELSE IF SenderQuiet THEN {s2r} ELSE {}

\* The reads of the per-frame loop, whose timeouts are answered with NAK.
FrameRead(n) == {data \in ReceiverRead(n) : Len(data) = n \/ Len(r2s) < MaxBacklog}

\* ------------------------------------------------------------------ send_file
\* mutant of UseCrc: CRC whenever the receiver asked for it
UseCrc_IgnoresRequested(initiate, checksum_type) == initiate = <<C>>

UseCrc(initiate, checksum_type) == initiate = <<C>> /\ checksum_type = "CRC"

\* mutant of ResponseKind: NAK is taken for an acknowledgement
ResponseKind_NakAdvances(resp) ==
    IF resp \in {<<ACK>>, <<NAK>>} THEN "ack"
    ELSE IF resp = <<CAN>> THEN "cancel"
    ELSE "retry"

\* the branches on the response to a frame
ResponseKind(resp) ==
    IF resp = <<ACK>> THEN "ack"
    ELSE IF resp \in {<<NAK>>, <<C>>} THEN "retry"
    ELSE IF resp = <<CAN>> THEN "cancel"
    ELSE "retry"

\* mutant of RetriesLeft: one attempt too many
RetriesLeft_OffByOne(retries) == retries <= RETRY_LIMIT

\* while retries < RETRY_LIMIT
RetriesLeft(retries) == retries < RETRY_LIMIT

\* mutant of NextBlockNumber: the number after 255 is 1
NextBlockNumber_SkipsZero(number) == IF number = 255 THEN 1 ELSE number + 1

\* block_number = (block_number + 1) % 256
NextBlockNumber(number) == (number + 1) % 256

SenderReturn(result) ==
    /\ spc' = "done"
    /\ sResult' = result

\* The for loop reaches blocks[idx] with block_number number: the first frame
\* of that block is written, or after the last block the first EOT.
EnterBlock(idx, number, use_crc) ==
    /\ block_index' = idx
    /\ s_retries' = 0
    /\ sResult' = sResult
    /\ IF idx <= Len(blocks)
       THEN /\ s2r' = s2r \o Packet(number, blocks[idx], use_crc)
            /\ spc' = "response"
       ELSE /\ s2r' = Append(s2r, EOT)
            /\ spc' = "eot_response"

\* send_file is called, some time after the port was opened
SendStart ==
    /\ spc = "idle"
    /\ spc' = "handshake"
    /\ UNCHANGED <<cfgVars, mainVars, chanVars, blocks, initiate_char, s_use_crc, block_index,
                   block_number, s_retries, sResult, rVars, fault>>

SendHandshake ==
    /\ spc = "handshake"
    /\ \E data \in SenderRead :
        /\ r2s' = Drop(r2s, Len(data))
        /\ IF data = <<>>
           THEN /\ SenderReturn("False")
                /\ UNCHANGED <<s2r, initiate_char, s_use_crc, block_index,
                               block_number, s_retries>>
           ELSE /\ initiate_char' = data
                /\ s_use_crc' = UseCrc(data, sType)
                /\ block_number' = 1
                /\ EnterBlock(1, 1, UseCrc(data, sType))
    /\ UNCHANGED <<cfgVars, mainVars, blocks, rVars, fault>>

SendResponse ==
    /\ spc = "response"
    /\ \E data \in SenderRead :
        /\ r2s' = Drop(r2s, Len(data))
        /\ CASE ResponseKind(data) = "ack" ->
                  /\ block_number' = NextBlockNumber(block_number)
                  /\ EnterBlock(block_index + 1, NextBlockNumber(block_number),
                                s_use_crc)
             [] ResponseKind(data) = "cancel" ->
                  /\ SenderReturn("False")
                  /\ UNCHANGED <<s2r, block_index, block_number, s_retries>>
             [] OTHER ->
                  /\ s_retries' = s_retries + 1
                  /\ UNCHANGED <<block_index, block_number>>
                  /\ IF RetriesLeft(s_retries + 1)
                     THEN /\ s2r' = s2r \o Packet(block_number, blocks[block_index],
                                                  s_use_crc)
                          /\ UNCHANGED <<spc, sResult>>
                     ELSE /\ s2r' = s2r \o <<CAN, CAN>>
                          /\ SenderReturn("False")
    /\ UNCHANGED <<cfgVars, mainVars, blocks, initiate_char, s_use_crc, rVars, fault>>

\* mutant of EotAcked: any answer to EOT, or none, counts as its ACK
EotAcked_Always(resp) == TRUE

\* if response == ACK: return True
EotAcked(resp) == resp = <<ACK>>

SendEotResponse ==
    /\ spc = "eot_response"
    /\ \E data \in SenderRead :
        /\ r2s' = Drop(r2s, Len(data))
        /\ IF EotAcked(data)
           THEN /\ SenderReturn("True")
                /\ UNCHANGED s_retries
           ELSE /\ s_retries' = s_retries + 1
                /\ spc' = "eot_sleep"
                /\ UNCHANGED sResult
    /\ UNCHANGED <<cfgVars, mainVars, s2r, blocks, initiate_char, s_use_crc, block_index,
                   block_number, rVars, fault>>

\* after time.sleep(1): the next EOT, or the return after the last one
SendEotSleep ==
    /\ spc = "eot_sleep"
    /\ IF RetriesLeft(s_retries)
       THEN /\ s2r' = Append(s2r, EOT)
            /\ spc' = "eot_response"
            /\ UNCHANGED sResult
       ELSE /\ SenderReturn("False")
            /\ UNCHANGED s2r
    /\ UNCHANGED <<cfgVars, mainVars, r2s, blocks, initiate_char, s_use_crc, block_index,
                   block_number, s_retries, rVars, fault>>

\* --------------------------------------------------------------- receive_file
\* mutant of HandshakeByte: 'C' whatever the configuration
HandshakeByte_AlwaysC(use_crc) == C

HandshakeByte(use_crc) == IF use_crc THEN C ELSE NAK

ComplementOk(num, complement) == num + complement = 255

\* mutant of TrailerOk: the trailer is read and not compared
TrailerOk_Unchecked(block, tr, use_crc) == TRUE

\* received_crc == calculated_crc, or ord(checksum) == calculated_checksum
TrailerOk(block, tr, use_crc) ==
    IF use_crc
    THEN tr[1] * 256 + tr[2] = calculate_crc(block)
    ELSE tr[1] = calculate_checksum(block)

\* mutant of SequenceKind: any number but the expected one is a duplicate
SequenceKind_NoAbort(num, expected) ==
    IF num = expected THEN "expected" ELSE "duplicate"

\* the branches on the number of a frame that passed the checks
SequenceKind(num, expected) ==
    IF num = expected THEN "expected"
    ELSE IF num = (expected - 1) % 256 THEN "duplicate"
    ELSE "out_of_sequence"

CancelBytes == <<CAN, CAN>>

\* mutant of StripPadding: the payload is written as it was accumulated
StripPadding_Nothing(data) == data

\* while received_data and received_data[-1] == PADDING[0]: received_data.pop()
RECURSIVE StripPadding(_)
StripPadding(data) ==
    IF data # <<>> /\ data[Len(data)] = PADDING
    THEN StripPadding(SubSeq(data, 1, Len(data) - 1))
    ELSE data

ReceiverReturn(result) ==
    /\ rpc' = "done"
    /\ rResult' = result

\* ser.write(NAK); continue
NakAndRetry ==
    /\ r2s' = Append(r2s, NAK)
    /\ rpc' = "block_num"

frameLocals == <<block_num, block_num_complement, data_block, trailer>>

\* the last byte taken from the port once a read has returned data
LastOf(data, before) == IF data = <<>> THEN before ELSE <<data[Len(data)]>>

RecvStart ==
    /\ rpc = "start"
    /\ r_use_crc' = (rType = "CRC")
    /\ r_retries' = 0
    /\ r2s' = Append(r2s, HandshakeByte(rType = "CRC"))
    /\ rpc' = "hs_read"
    /\ UNCHANGED <<cfgVars, mainVars, s2r, sVars, received_data, expected_block,
                   frameLocals, outFile, rResult, consumed, fault>>

RecvHandshake ==
    /\ rpc = "hs_read"
    /\ \E data \in ReceiverRead(1) :
        /\ s2r' = Drop(s2r, Len(data))
        /\ consumed' = LastOf(data, consumed)
        /\ IF data = <<SOH>>
           THEN /\ received_data' = <<>>
                /\ expected_block' = 1
                /\ rpc' = "block_num"
                /\ UNCHANGED <<r_retries, rResult>>
           ELSE IF data = <<CAN>>
           THEN /\ ReceiverReturn("False")
                /\ UNCHANGED <<r_retries, received_data, expected_block>>
           ELSE /\ r_retries' = r_retries + 1
                /\ rpc' = "hs_sleep"
                /\ UNCHANGED <<rResult, received_data, expected_block>>
    /\ UNCHANGED <<cfgVars, mainVars, r2s, sVars, r_use_crc, frameLocals, outFile, fault>>

\* after time.sleep(1): the next handshake byte, or the return after the last
RecvHandshakeSleep ==
    /\ rpc = "hs_sleep"
    /\ IF RetriesLeft(r_retries)
       THEN /\ r2s' = Append(r2s, HandshakeByte(r_use_crc))
            /\ rpc' = "hs_read"
            /\ UNCHANGED rResult
       ELSE /\ ReceiverReturn("False")
            /\ UNCHANGED r2s
    /\ UNCHANGED <<cfgVars, mainVars, s2r, sVars, r_use_crc, r_retries, received_data,
                   expected_block, frameLocals, outFile, consumed, fault>>

RecvBlockNum ==
    /\ rpc = "block_num"
    /\ \E data \in FrameRead(1) :
        /\ s2r' = Drop(s2r, Len(data))
        /\ consumed' = LastOf(data, consumed)
        /\ IF data = <<>>
           THEN /\ NakAndRetry
                /\ UNCHANGED block_num
           ELSE /\ block_num' = data[1]
                /\ rpc' = "complement"
                /\ UNCHANGED r2s
    /\ UNCHANGED <<cfgVars, mainVars, sVars, r_use_crc, r_retries, received_data,
                   expected_block, block_num_complement, data_block, trailer,
                   outFile, rResult, fault>>

RecvComplement ==
    /\ rpc = "complement"
    /\ \E data \in FrameRead(1) :
        /\ s2r' = Drop(s2r, Len(data))
        /\ consumed' = LastOf(data, consumed)
        /\ IF data = <<>>
           THEN /\ NakAndRetry
                /\ UNCHANGED block_num_complement
           ELSE /\ block_num_complement' = data[1]
                /\ IF ComplementOk(block_num, data[1])
                   THEN /\ rpc' = "data"
                        /\ UNCHANGED r2s
                   ELSE NakAndRetry
    /\ UNCHANGED <<cfgVars, mainVars, sVars, r_use_crc, r_retries, received_data,
                   expected_block, block_num, data_block, trailer, outFile, rResult,
                   fault>>

RecvDataBlock ==
    /\ rpc = "data"
    /\ \E data \in FrameRead(BLOCK_SIZE) :
        /\ s2r' = Drop(s2r, Len(data))
        /\ consumed' = LastOf(data, consumed)
        /\ data_block' = data
        /\ IF Len(data) # BLOCK_SIZE
           THEN NakAndRetry
           ELSE /\ rpc' = "trailer"
                /\ UNCHANGED r2s
    /\ UNCHANGED <<cfgVars, mainVars, sVars, r_use_crc, r_retries, received_data,
                   expected_block, block_num, block_num_complement, trailer, outFile,
                   rResult, fault>>

RecvTrailer ==
    /\ rpc = "trailer"
    /\ \E data \in FrameRead(IF r_use_crc THEN 2 ELSE 1) :
        /\ s2r' = Drop(s2r, Len(data))
        /\ consumed' = LastOf(data, consumed)
        /\ trailer' = data
        /\ IF Len(data) # (IF r_use_crc THEN 2 ELSE 1)
           THEN /\ NakAndRetry
                /\ UNCHANGED <<received_data, expected_block, rResult>>
           ELSE IF ~TrailerOk(data_block, data, r_use_crc)
           THEN /\ NakAndRetry
                /\ UNCHANGED <<received_data, expected_block, rResult>>
           ELSE IF SequenceKind(block_num, expected_block) = "expected"
           THEN /\ received_data' = received_data \o data_block
                /\ r2s' = Append(r2s, ACK)
                /\ expected_block' = (expected_block + 1) % 256
                /\ rpc' = "lead"
                /\ UNCHANGED rResult
           ELSE IF SequenceKind(block_num, expected_block) = "duplicate"
           THEN /\ r2s' = Append(r2s, ACK)
                /\ rpc' = "lead"
                /\ UNCHANGED <<received_data, expected_block, rResult>>
           ELSE /\ r2s' = r2s \o CancelBytes
                /\ ReceiverReturn("False")
                /\ UNCHANGED <<received_data, expected_block>>
    /\ UNCHANGED <<cfgVars, mainVars, sVars, r_use_crc, r_retries, block_num,
                   block_num_complement, data_block, outFile, fault>>

\* the read after an ACK; on EOT the loop is left, the padding is stripped and
\* the file is written
RecvLead ==
    /\ rpc = "lead"
    /\ \E data \in ReceiverRead(1) :
        /\ s2r' = Drop(s2r, Len(data))
        /\ consumed' = LastOf(data, consumed)
        /\ IF data = <<EOT>>
           THEN /\ r2s' = Append(r2s, ACK)
                /\ received_data' = StripPadding(received_data)
                /\ outFile' = <<StripPadding(received_data)>>
                /\ ReceiverReturn("True")
           ELSE /\ rpc' = "block_num"
                /\ UNCHANGED <<r2s, received_data, outFile, rResult>>
    /\ UNCHANGED <<cfgVars, mainVars, sVars, r_use_crc, r_retries, expected_block,
                   frameLocals, fault>>

\* ------------------------------------------------------------ the environment
\* A peer of the sender that answers anything: the bytes the sender tells
\* apart, and one it does not know.
ResponseBytes == {ACK, NAK, CAN, C, 0}

EnvRespond ==
    /\ spc \in {"handshake", "response", "eot_response"}
    /\ r2s = <<>>
    /\ \E b \in ResponseBytes : r2s' = <<b>>
    /\ UNCHANGED <<cfgVars, mainVars, s2r, sVars, rVars, fault>>

\* A peer of the receiver that sends anything: for each read of the receiver,
\* one input of every kind the receiver tells apart.
FeedSet ==
    CASE rpc \in {"hs_read", "lead"} -> {<<SOH>>, <<EOT>>, <<CAN>>, <<0>>}
      [] rpc = "block_num" -> {<<n>> : n \in 0..2}
      [] rpc = "complement" -> {<<255 - block_num>>, <<(256 - block_num) % 256>>}
      [] rpc = "data" -> {Repeat(65, BLOCK_SIZE), Append(Repeat(65, BLOCK_SIZE - 1), PADDING),
                          Repeat(65, BLOCK_SIZE - 1)}
      [] rpc = "trailer" -> {Trailer(data_block, TRUE), Trailer(data_block, FALSE),
                             <<0, 0>>}
      [] OTHER -> {}

EnvFeed ==
    /\ s2r = <<>>
    /\ Len(r2s) < MaxBacklog
    /\ Len(received_data) <= MaxFedBlocks * BLOCK_SIZE
    /\ \E chunk \in FeedSet : s2r' = chunk
    /\ UNCHANGED <<cfgVars, mainVars, r2s, sVars, rVars, fault>>

\* the peer of the receiver reads what the receiver wrote
EnvDrain ==
    /\ r2s # <<>>
    /\ r2s' = Tail(r2s)
    /\ UNCHANGED <<cfgVars, mainVars, s2r, sVars, rVars, fault>>

\* the peer of the receiver is still there, has read the answers to what it
\* sent, and sends
PeerFeed ==
    /\ spc = "absent"
    /\ r2s = <<>>
    /\ received_data = <<>>
    /\ EnvFeed

\* the peer of the receiver gives up after the handshake as send_file does
\* when its retries are used up: it writes CAN CAN, terminates and writes
\* nothing more
PeerStop ==
    /\ spc = "absent"
    /\ rpc \notin {"start", "hs_read", "hs_sleep", "done"}
    /\ s2r = <<>>
    /\ spc' = "done"
    /\ s2r' = <<CAN, CAN>>
    /\ UNCHANGED <<cfgVars, mainVars, r2s, blocks, initiate_char, s_use_crc,
                   block_index, block_number, s_retries, sResult, rVars, fault>>

\* the length of the frame at the head of s2r
FrameLen == 3 + BLOCK_SIZE + (IF s_use_crc THEN 2 ELSE 1)

Replace(q, i, b) == [q EXCEPT ![i] = b]
Remove(q, i) == SubSeq(q, 1, i - 1) \o SubSeq(q, i + 1, Len(q))

\* The link loses the receiver's ACK of a data block.
LoseAck ==
    /\ fault = "none"
    /\ spc = "response"
    /\ r2s = <<ACK>>
    /\ r2s' = <<>>
    /\ fault' = "ack_lost"
    /\ UNCHANGED <<cfgVars, mainVars, s2r, sVars, rVars>>

\* The link damages the one frame under way before the receiver reads it: a
\* trailer byte or the complement is changed, or the last byte is lost.
CorruptFrame ==
    /\ fault = "none"
    /\ spc = "response"
    /\ rpc \in {"hs_read", "lead"}
    /\ Len(s2r) = FrameLen
    /\ \E kind \in {"trailer", "complement", "short"} :
        /\ fault' = kind
        /\ s2r' = CASE kind = "trailer" ->
                         Replace(s2r, FrameLen, (s2r[FrameLen] + 1) % 256)
                    [] kind = "complement" -> Replace(s2r, 3, (s2r[3] + 1) % 256)
                    [] OTHER -> Remove(s2r, FrameLen)
    /\ UNCHANGED <<cfgVars, mainVars, r2s, sVars, rVars>>

\* ----------------------------------------------------------------------- main
\* main in send mode: send_file has returned, its result is dropped, the port
\* is closed and main returns; the interpreter ends with status 0
MainSendExit ==
    /\ spc = "done"
    /\ sExit = <<>>
    /\ sExit' = <<0>>
    /\ UNCHANGED <<cfgVars, rExit, chanVars, sVars, rVars, fault>>

\* main in receive mode, after receive_file has returned
MainReceiveExit ==
    /\ rpc = "done"
    /\ rExit = <<>>
    /\ rExit' = <<0>>
    /\ UNCHANGED <<cfgVars, sExit, chanVars, sVars, rVars, fault>>

\* ----------------------------------------------------------- specifications
Types == {"BASIC", "CRC"}

InitWith(files, sender_pc, sender_types, receiver_pc, receiver_types) ==
    /\ file \in files
    /\ sType \in sender_types
    /\ rType \in receiver_types
    /\ s2r = <<>>
    /\ r2s = <<>>
    /\ spc = sender_pc
    /\ blocks = SplitBlocks(PadFile(file))
    /\ initiate_char = <<>>
    /\ s_use_crc = FALSE
    /\ block_index = 1
    /\ block_number = 1
    /\ s_retries = 0
    /\ sResult = "None"
    /\ rpc = receiver_pc
    /\ r_use_crc = FALSE
    /\ r_retries = 0
    /\ received_data = <<>>
    /\ expected_block = 1
    /\ block_num = 0
    /\ block_num_complement = 0
    /\ data_block = <<>>
    /\ trailer = <<>>
    /\ outFile = <<>>
    /\ rResult = "None"
    /\ consumed = <<>>
    /\ fault = "none"
    /\ sExit = <<>>
    /\ rExit = <<>>

Files == SeqsUpTo(FileBytes, MaxFileLen)

\* the files that differ in their length and their last byte only
PlainFiles == {f \in Files : \A i \in 1..(Len(f) - 1) : f[i] = 65}

SenderNext == SendHandshake \/ SendResponse \/ SendEotResponse \/ SendEotSleep

ReceiverNext ==
    \/ RecvStart
    \/ RecvHandshake
    \/ RecvHandshakeSleep
    \/ RecvBlockNum
    \/ RecvComplement
    \/ RecvDataBlock
    \/ RecvTrailer
    \/ RecvLead

\* send_file against receive_file over a reliable link
Init == InitWith(Files, "handshake", Types, "start", Types)
Next == SenderNext \/ ReceiverNext
Spec == Init /\ [][Next]_vars

\* send_file against any peer
InitSender == InitWith(PlainFiles, "handshake", Types, "absent", {"CRC"})
NextSender == SenderNext \/ EnvRespond
SpecSender == InitSender /\ [][NextSender]_vars

\* receive_file against any peer
InitReceiver == InitWith({<<>>}, "absent", {"CRC"}, "start", Types)
NextReceiver == ReceiverNext \/ EnvFeed \/ EnvDrain
SpecReceiver == InitReceiver /\ [][NextReceiver]_vars

\* send_file against receive_file over a link that fails once
NextFaulty == Next \/ LoseAck \/ CorruptFrame
SpecFaulty == Init /\ [][NextFaulty]_vars

\* send_file against receive_file over a reliable link, for the empty file and
\* a file of more than 255 blocks
LongFiles == {<<>>, Repeat(65, LongFileBlocks * BLOCK_SIZE - 1)}
InitLong == InitWith(LongFiles, "handshake", Types, "start", Types)
SpecLong == InitLong /\ [][Next]_vars

\* send_file against receive_file over a reliable link, send_file being called
\* at any moment after receive_file
InitLate == InitWith(PlainFiles, "idle", Types, "start", Types)
NextLate == Next \/ SendStart
SpecLate == InitLate /\ [][NextLate]_vars

\* the two processes running main, the sending one started at any moment
NextMain == NextLate \/ MainSendExit \/ MainReceiveExit
SpecMain == InitLate /\ [][NextMain]_vars

\* receive_file against a peer that sends anything and then terminates.
\* receive_file keeps running (it is one sequential process, so at most one of
\* its steps is enabled at a time), and what it writes leaves the line.
ReceiverRuns ==
    /\ WF_vars(RecvStart)
    /\ WF_vars(RecvHandshake)
    /\ WF_vars(RecvHandshakeSleep)
    /\ WF_vars(RecvBlockNum)
    /\ WF_vars(RecvComplement)
    /\ WF_vars(RecvDataBlock)
    /\ WF_vars(RecvTrailer)
    /\ WF_vars(RecvLead)

NextAbandoned == ReceiverNext \/ PeerFeed \/ EnvDrain \/ PeerStop
SpecAbandoned ==
    /\ InitReceiver
    /\ [][NextAbandoned]_vars
    /\ ReceiverRuns
    /\ WF_vars(EnvDrain)

\* ===================================================================== claims

\* the precondition of C1: same integrity mode, last byte not the padding byte
RoundTripCase == sType = rType /\ (file = <<>> \/ file[Len(file)] # PADDING)

\* C1 (as claimed): for every file of any length >= 0 whose last byte is not
\* 0x1A, with both ends in the same mode over the reliable link, send_file and
\* receive_file both return success and the output file equals the file sent.
C1_RoundTrip ==
    RoundTripCase =>
        /\ spc = "done" => sResult = "True"
        /\ rpc = "done" => rResult = "True" /\ outFile = <<file>>

\* ------------------------------------------------------ the sender's writes
\* In SpecSender nothing reads s2r: it is all that send_file has written.
LastBytes(q, n) == SubSeq(q, Len(q) - n + 1, Len(q))
ButLast(q, n) == SubSeq(q, 1, Len(q) - n)

\* the frame of the block the for loop is at
CurrentFrame == Packet(block_number, blocks[block_index], s_use_crc)

RECURSIVE Copies(_, _)
Copies(q, n) == IF n = 0 THEN <<>> ELSE q \o Copies(q, n - 1)

\* the step of send_file that reads the response to a frame, and the byte read
ResponseStep == spc = "response" /\ (spc' # spc \/ s2r' # s2r)
ReadAck == r2s # <<>> /\ Head(r2s) = ACK

\* C2: the block number and the block framed change only in a step whose
\* response is ACK; after any other response (or none) the frame written next
\* is the frame written before, with the same number and payload.
C2_Step ==
    /\ (block_number' # block_number \/ block_index' # block_index) =>
          /\ spc = "response"
          /\ ReadAck
          /\ block_index' = block_index + 1
          /\ block_number' = (block_number + 1) % 256
    /\ (ResponseStep /\ ~ReadAck) =>
          /\ block_number' = block_number
          /\ block_index' = block_index
          /\ s2r' \in {s2r, s2r \o <<CAN, CAN>>, s2r \o LastBytes(s2r, FrameLen)}

\* C2: every step of the session is such a step: the sender advances only on ACK.
C2_AdvanceOnlyOnAck == [][C2_Step]_vars

\* block 1 was written twice (a retransmission), then acknowledged
C2_Witness ==
    /\ spc = "response"
    /\ block_number = 2
    /\ Len(s2r) = 3 * FrameLen

\* C6: the retry counter is 0 at the first frame of every block and never
\* exceeds 10; while a block is in progress the writes end with retries + 1
\* copies of its frame; once 10 responses to a block were neither ACK nor CAN,
\* exactly 10 copies of its frame were written, then CAN CAN, failure is
\* returned and nothing is written after (no later block, no EOT).
C6_InProgress ==
    spc = "response" =>
        /\ s_retries < RETRY_LIMIT
        /\ LastBytes(s2r, (s_retries + 1) * FrameLen)
             = Copies(CurrentFrame, s_retries + 1)
        /\ LET before == ButLast(s2r, (s_retries + 1) * FrameLen)
           IN before = <<>> \/ LastBytes(before, FrameLen) # CurrentFrame

C6_Exhausted ==
    (spc = "done" /\ block_index <= Len(blocks) /\ s_retries = RETRY_LIMIT) =>
        /\ sResult = "False"
        /\ LastBytes(s2r, 2 + RETRY_LIMIT * FrameLen)
             = Copies(CurrentFrame, RETRY_LIMIT) \o <<CAN, CAN>>
        /\ LET before == ButLast(s2r, 2 + RETRY_LIMIT * FrameLen)
           IN before = <<>> \/ LastBytes(before, FrameLen) # CurrentFrame

C6_Step ==
    /\ block_index' # block_index => s_retries' = 0
    /\ (ResponseStep /\ ~ReadAck /\ s_retries + 1 = RETRY_LIMIT
          /\ ~(r2s # <<>> /\ Head(r2s) = CAN)) =>
          /\ s2r' = s2r \o <<CAN, CAN>>
          /\ spc' = "done"
          /\ sResult' = "False"
    /\ spc = "done" => s2r' = s2r

\* C6: the retry counter stays within 0..10 and a block that used up its 10
\* attempts ends the session with CAN CAN, failure and no further write.
C6_RetryExhaustion ==
    /\ [](s_retries \in 0..RETRY_LIMIT)
    /\ []C6_InProgress
    /\ []C6_Exhausted
    /\ [][C6_Step]_vars

\* the second block ran out of retries
C6_Witness ==
    /\ spc = "done"
    /\ sResult = "False"
    /\ block_index = 2
    /\ Len(blocks) = 2
    /\ s_retries = RETRY_LIMIT

\* C8 (as claimed): when the handshake wait ends with a byte other than 'C' or
\* NAK, or with no byte, send_file has returned failure and has written
\* nothing.
C8_HandshakeRejects ==
    (spc # "handshake" /\ initiate_char \notin {<<C>>, <<NAK>>}) =>
        /\ spc = "done"
        /\ sResult = "False"
        /\ s2r = <<>>

\* C9: the frames carry a 2-byte CRC exactly when the handshake byte was 'C'
\* and CRC was requested, and a 1-byte checksum otherwise (always after NAK);
\* every frame of the session, retransmissions too, has that one layout.
C9_TrailerLen == IF initiate_char = <<C>> /\ sType = "CRC" THEN 2 ELSE 1

\* C9: the frame just written, and the length of all that was written, have
\* the layout of the mode the handshake selected.
C9_ModeSelection ==
    spc = "response" =>
        LET len == 3 + BLOCK_SIZE + C9_TrailerLen
            frame == LastBytes(s2r, len)
            block == SubSeq(frame, 4, 3 + BLOCK_SIZE)
            tr == SubSeq(frame, 4 + BLOCK_SIZE, len)
        IN /\ Len(s2r) % len = 0
           /\ Len(s2r) >= len
           /\ frame[1] = SOH
           /\ IF C9_TrailerLen = 2
              THEN tr[1] * 256 + tr[2] = calculate_crc(block)
              ELSE tr[1] = calculate_checksum(block)

\* CRC was requested, the receiver asked for the checksum, and the second
\* block is being retransmitted
C9_Witness ==
    /\ spc = "response"
    /\ initiate_char = <<NAK>>
    /\ sType = "CRC"
    /\ block_index = 2
    /\ s_retries >= 1

\* ---------------------------------------------------- the receiver's steps
\* the steps of receive_file that read the handshake answer, wake from the
\* handshake sleep and read a trailer (each leaves its place in the code)
HandshakeStep == rpc = "hs_read" /\ rpc' # "hs_read"
WakeStep == rpc = "hs_sleep" /\ rpc' # "hs_sleep"
TrailerStep == rpc = "trailer" /\ rpc' # "trailer"

\* the trailer a frame with this payload must carry for the receiver's mode
ExpectedTrailer(block) ==
    IF r_use_crc
    THEN <<(calculate_crc(block) \div 256) % 256, calculate_crc(block) % 256>>
    ELSE <<calculate_checksum(block)>>

\* the frame read in a trailer step passed the complement, length and
\* integrity checks
FramePassed ==
    /\ TrailerStep
    /\ block_num + block_num_complement = 255
    /\ Len(data_block) = BLOCK_SIZE
    /\ trailer' = ExpectedTrailer(data_block)

\* C3: in the per-frame loop expected_block and the accumulated payload change
\* only in the step that read a frame with number + complement = 255, a full
\* payload, the recomputed trailer and number = expected_block; that step
\* appends exactly the payload and adds 1 (mod 256) to expected_block. (The
\* stripping of the padding is done after the loop, when receive_file returns.)
C3_Step ==
    (expected_block' # expected_block
        \/ (received_data' # received_data /\ rpc' # "done")) =>
        /\ FramePassed
        /\ block_num = expected_block
        /\ received_data' = received_data \o data_block
        /\ expected_block' = (expected_block + 1) % 256

C7_Step ==
    /\ (FramePassed /\ block_num \notin {expected_block, (expected_block - 1) % 256}) =>
          /\ r2s' = r2s \o <<CAN, CAN>>
          /\ rpc' = "done"
          /\ rResult' = "False"
          /\ outFile' = <<>>
    /\ rpc = "done" => (outFile' = outFile /\ rResult' = rResult /\ rpc' = "done")

\* C7: an out-of-sequence frame ends receive_file with CAN CAN and failure,
\* and a failed receive_file has written no output file.
C7_OutOfSequence ==
    /\ [][C7_Step]_vars
    /\ [](rResult = "False" => outFile = <<>>)

\* block 1 was taken, then a good frame numbered 0 came
C7_Witness ==
    /\ rpc = "done"
    /\ rResult = "False"
    /\ expected_block = 2
    /\ block_num = 0
    /\ Len(data_block) = BLOCK_SIZE
    /\ trailer = ExpectedTrailer(data_block)
    /\ Len(r2s) >= 2
    /\ LastBytes(r2s, 2) = <<CAN, CAN>>

\* what the handshake read of this step returns
HandshakeRead == IF s2r = <<>> THEN <<>> ELSE <<Head(s2r)>>

\* C10: the handshake byte ('C' for CRC, NAK for checksum) is written before
\* each handshake read, the k-th write after k - 1 failed reads and never an
\* 11th; SOH starts the per-frame loop with expected_block = 1 and no payload;
\* CAN returns failure at once; the 10th failed read returns failure; no
\* failing return writes the output file.
C10_Step ==
    /\ (rpc' = "hs_read" /\ rpc # "hs_read") =>
          /\ rpc \in {"start", "hs_sleep"}
          /\ r2s' = Append(r2s, IF rType = "CRC" THEN C ELSE NAK)
          /\ r_retries' < RETRY_LIMIT
          /\ r_retries' = (IF rpc = "start" THEN 0 ELSE r_retries)
    /\ (HandshakeStep /\ HandshakeRead = <<SOH>>) =>
          /\ rpc' = "block_num"
          /\ expected_block' = 1
          /\ received_data' = <<>>
          /\ r2s' = r2s
    /\ (HandshakeStep /\ HandshakeRead = <<CAN>>) =>
          /\ rpc' = "done"
          /\ rResult' = "False"
          /\ r2s' = r2s
    /\ (HandshakeStep /\ HandshakeRead \notin {<<SOH>>, <<CAN>>}) =>
          /\ rpc' = "hs_sleep"
          /\ r_retries' = r_retries + 1
          /\ r2s' = r2s
    /\ (WakeStep /\ r_retries >= RETRY_LIMIT) =>
          /\ rpc' = "done"
          /\ rResult' = "False"
          /\ r2s' = r2s

\* C10: every step keeps to the handshake above, with at most 10 attempts and
\* no output file on the failing paths.
C10_Handshake ==
    /\ [][C10_Step]_vars
    /\ [](r_retries \in 0..RETRY_LIMIT)
    /\ [](rResult = "False" => outFile = <<>>)
    /\ [](rpc \in {"start", "hs_read", "hs_sleep"} => outFile = <<>>)

\* the tenth handshake read failed too, in checksum mode
C10_Witness ==
    /\ rpc = "done"
    /\ rResult = "False"
    /\ rType = "BASIC"
    /\ r_retries = RETRY_LIMIT

\* ------------------------------------------------------- recovery on the link
IsPrefix(p, q) == Len(p) <= Len(q) /\ SubSeq(q, 1, Len(p)) = p

\* The session is recovering, or has recovered, as the claims on recovery say
\* it does: nobody has returned failure, the payload accumulated so far is the
\* padded input up to some block (each block appended once, in order), and
\* once receive_file has returned, the output is the padded input stripped.
Recovered ==
    /\ spc = "done" => sResult = "True"
    /\ rpc = "done" => rResult = "True" /\ outFile = <<StripPadding(PadFile(file))>>
    /\ rpc # "done" =>
          /\ IsPrefix(received_data, PadFile(file))
          /\ Len(received_data) % BLOCK_SIZE = 0

\* C4 (as claimed): after the ACK of a block was lost and the sender timed out
\* and retransmitted the block, the receiver absorbs the duplicate and the
\* transfer completes with every block appended exactly once.
C4_LostAckRecovery == (sType = rType /\ fault = "ack_lost") => Recovered

\* C5 (as claimed): after a frame arrived with a wrong trailer, a wrong
\* complement or a byte short, the receiver's NAK makes the sender retransmit
\* the intact frame, the receiver accepts it and the transfer completes with
\* the payload equal to the input.
C5_NakRecovery ==
    (sType = rType /\ fault \in {"trailer", "complement", "short"}) => Recovered

\* ------------------------------------------------------ the end of send_file
\* the step that writes one EOT (a frame is longer, CAN CAN is two bytes)
EotWrite == s2r' = Append(s2r, EOT)
AllAcked == block_index = Len(blocks) + 1

\* C11: while send_file waits for the answer to an EOT, every block has been
\* acknowledged and the writes end with one EOT per attempt; success was
\* returned only after the end of the blocks; a failure in the EOT loop comes
\* after 10 EOTs.
C11_EotPhase ==
    /\ spc \in {"eot_response", "eot_sleep"} =>
          /\ AllAcked
          /\ LET n == IF spc = "eot_response" THEN s_retries + 1 ELSE s_retries
             IN /\ n \in 1..RETRY_LIMIT
                /\ LastBytes(s2r, n) = Repeat(EOT, n)
    /\ sResult = "True" => (spc = "done" /\ AllAcked)
    /\ (spc = "done" /\ sResult = "False" /\ AllAcked /\ initiate_char # <<>>) =>
          /\ s_retries = RETRY_LIMIT
          /\ LastBytes(s2r, RETRY_LIMIT) = Repeat(EOT, RETRY_LIMIT)

\* C11: EOT is written only once every block was acknowledged, the first one
\* in the step that reads the last block's ACK (or right after the handshake
\* of an empty file) and each further one after an EOT that was not answered
\* with ACK, with fewer than 10 written before; success is returned exactly
\* in the step that reads ACK as the answer to an EOT.
C11_Step ==
    /\ EotWrite =>
          /\ block_index' = Len(blocks) + 1
          /\ spc' = "eot_response"
          /\ s_retries' < RETRY_LIMIT
          /\ \/ spc = "eot_sleep" /\ s_retries' = s_retries
             \/ spc = "response" /\ ReadAck /\ block_index = Len(blocks)
                   /\ s_retries' = 0
             \/ spc = "handshake" /\ blocks = <<>> /\ s_retries' = 0
    /\ (sResult' = "True" /\ sResult # "True") => (spc = "eot_response" /\ ReadAck)
    /\ (spc = "eot_response" /\ spc' # spc) =>
          IF ReadAck
          THEN spc' = "done" /\ sResult' = "True" /\ s2r' = s2r
          ELSE spc' = "eot_sleep" /\ s_retries' = s_retries + 1 /\ s2r' = s2r
    /\ (spc = "eot_sleep" /\ spc' = "done") =>
          (sResult' = "False" /\ s_retries = RETRY_LIMIT /\ s2r' = s2r)

\* C11: send_file finishes with at most 10 EOTs, written after the last ACK,
\* and succeeds if and only if one of them is answered with ACK.
C11_Finalization ==
    /\ []C11_EotPhase
    /\ [][C11_Step]_vars

\* two blocks were acknowledged and none of the 10 EOTs was
C11_Witness ==
    /\ spc = "done"
    /\ sResult = "False"
    /\ Len(blocks) = 2
    /\ AllAcked
    /\ s_retries = RETRY_LIMIT

\* ------------------------------------------------------ the output file
\* out is data without its trailing padding bytes, all of them
IsStripped(out, data) ==
    /\ IsPrefix(out, data)
    /\ \A i \in (Len(out) + 1)..Len(data) : data[i] = PADDING
    /\ out = <<>> \/ out[Len(out)] # PADDING

\* C12: the output file is written in one step only, the step that read EOT
\* after an ACK and wrote the ACK of the EOT; it was not written before, and
\* what is written is the accumulated payload without its trailing 0x1A
\* bytes; after the return nothing is written.
C12_Step ==
    /\ outFile' # outFile =>
          /\ outFile = <<>>
          /\ rpc = "lead"
          /\ HandshakeRead = <<EOT>>
          /\ r2s' = Append(r2s, ACK)
          /\ Len(outFile') = 1
          /\ IsStripped(outFile'[1], received_data)
          /\ rpc' = "done"
          /\ rResult' = "True"
    /\ (rpc = "lead" /\ rpc' # rpc /\ HandshakeRead = <<EOT>>) => outFile' # <<>>
    /\ rpc = "done" => outFile' = outFile

FrameWrite == Len(s2r') > Len(s2r) + 2
WrittenFrame == LastBytes(s2r', Len(s2r') - Len(s2r))

\* C13: the frame written for the i-th block is SOH, i mod 256, its
\* complement to 255, the BLOCK_SIZE bytes of the block, and the checksum of
\* these bytes (one byte) or their CRC (two bytes, high byte first) as the
\* mode selected in the handshake says.
C13_Step ==
    FrameWrite =>
        LET frame == WrittenFrame
            N == frame[2]
            payload == SubSeq(frame, 4, 3 + BLOCK_SIZE)
            tr == SubSeq(frame, 4 + BLOCK_SIZE, Len(frame))
        IN /\ frame[1] = SOH
           /\ N = block_index' % 256
           /\ frame[3] = 255 - N
           /\ (N + frame[3]) % 256 = 255
           /\ block_index' \in 1..Len(blocks)
           /\ payload = blocks[block_index']
           /\ Len(payload) = BLOCK_SIZE
           /\ IF s_use_crc'
              THEN /\ Len(tr) = 2
                   /\ tr[1] * 256 + tr[2] = calculate_crc(payload)
              ELSE /\ Len(tr) = 1
                   /\ tr[1] = calculate_checksum(payload)
           /\ block_index' = 256 => N = 0

\* C13: every frame send_file writes has this format and this number.
C13_WireFormat == [][C13_Step]_vars

\* the frame of block 256 is on the link, numbered 0 with complement 255
C13_Witness ==
    /\ spc = "response"
    /\ block_index = 256
    /\ Len(s2r) = FrameLen
    /\ s2r[2] = 0
    /\ s2r[3] = 255

\* ----------------------------------------------------------------- padding
RECURSIVE Concat(_)
Concat(seqs) == IF seqs = <<>> THEN <<>> ELSE Head(seqs) \o Concat(Tail(seqs))

\* C14: the blocks send_file transmits, joined, are the file followed by
\* BLOCK_SIZE - (length mod BLOCK_SIZE) padding bytes when the length is no
\* multiple of BLOCK_SIZE, and the file itself when it is (the empty file
\* too); every block has BLOCK_SIZE bytes and there are
\* ceil(length / BLOCK_SIZE) of them.
C14_Padding ==
    LET rest == Len(file) % BLOCK_SIZE
    IN /\ Concat(blocks) = IF rest # 0
                           THEN file \o Repeat(PADDING, BLOCK_SIZE - rest)
                           ELSE file
       /\ \A k \in 1..Len(blocks) : Len(blocks[k]) = BLOCK_SIZE
       /\ Len(blocks) * BLOCK_SIZE >= Len(file)
       /\ (Len(blocks) - 1) * BLOCK_SIZE < Len(file) \/ Len(blocks) = 0

\* a file that ends inside its second block was sent to the end, and the
\* padding was the last byte acknowledged
C14_Witness ==
    /\ Len(file) % BLOCK_SIZE = 1
    /\ Len(blocks) = 2
    /\ blocks[2][BLOCK_SIZE] = PADDING
    /\ spc = "done"
    /\ sResult = "True"

\* ------------------------------------------------------------ stop and wait
\* C15 (as claimed, for two ends in the same mode): the sender-to-receiver
\* channel never holds bytes of more than one frame, because send_file writes
\* only when all it wrote before was consumed and answered.
C15_StopAndWait == sType = rType => Len(s2r) <= FrameLen

\* ------------------------------------------------------------- exit status
\* C16 (as claimed): a process that ran main exits with status 0 when its
\* session succeeded and with another status when send_file or receive_file
\* returned failure.
C16_ExitStatus ==
    /\ sExit # <<>> => (sExit = <<0>> <=> sResult = "True")
    /\ rExit # <<>> => (rExit = <<0>> <=> rResult = "True")

\* ---------------------------------------------------------- frame alignment
\* the step of receive_file that takes a byte as a block number
BlockNumStep == rpc = "block_num" /\ rpc' = "complement"

\* C17 (as claimed): whenever receive_file takes a byte as a block number,
\* the byte it took from the port just before was SOH.
C17_Step == BlockNumStep => consumed = <<SOH>>

\* C17 (as claimed): every step that reads a block number follows an SOH.
C17_FrameAlignment == [][C17_Step]_vars

\* ------------------------------------------------- the end of receive_file
\* C18 (as claimed): once the sender has terminated, here with CAN CAN after
\* the handshake, and writes nothing more, receive_file eventually returns.
C18_Termination == (spc = "done") ~> (rpc = "done")

\* ------------------------------------------------------------ ACK agreement
\* receive_file has appended the k-th block of the file
Appended(k) ==
    /\ Len(received_data) >= k * BLOCK_SIZE
    /\ SubSeq(received_data, (k - 1) * BLOCK_SIZE + 1, k * BLOCK_SIZE) = blocks[k]

\* C19 (as claimed): in the step in which send_file reads ACK and goes past
\* the block it is at, receive_file has already appended that block; in the
\* step in which send_file returns success, receive_file has already read EOT
\* and returned.
C19_Step ==
    /\ (spc = "response" /\ ReadAck /\ block_index' = block_index + 1) =>
          Appended(block_index)
    /\ (sResult' = "True" /\ sResult # "True") => (rpc = "done" /\ rResult = "True")

\* C19 (as claimed): every step of a session keeps the two ends in agreement,
\* whenever send_file was called.
C19_AckAgreement == [][C19_Step]_vars

\* ----------------------------------------------------------- mode agreement
\* both ends are past their handshake
HandshakeComplete ==
    /\ initiate_char # <<>>
    /\ rpc \in {"block_num", "complement", "data", "trailer", "lead"}

\* C20 (as claimed): once the handshake is complete, the trailer send_file
\* appends to its frames is as long as the trailer receive_file reads,
\* whatever the two configured modes are.
C20_ModeAgreement ==
    HandshakeComplete => (IF s_use_crc THEN 2 ELSE 1) = (IF r_use_crc THEN 2 ELSE 1)

====
